---- MODULE Spec2Model ----
(***************************************************************************)
(* Verification model of the StartNerve backend (src/app.py and            *)
(* src/course_agent.py): the outline parser, the generate-outline          *)
(* endpoint, the credit ledger transaction, the parallel lesson fan-out    *)
(* with its shared used_ids list, and the ebook HTML assembler.            *)
(*                                                                         *)
(* Text is modelled as a sequence of tokens: each literal delimiter the    *)
(* parser splits on is one token, "SP" is a run of whitespace and "w" is   *)
(* any other run of characters.                                            *)
(***************************************************************************)
EXTENDS Integers, Sequences, FiniteSets, TLC

VARIABLES
    text,       \* parse_outline: the raw text handed to the parser
    parse_pc,   \* parse_outline: "call" before the call, "returned" after it
    parsed,     \* parse_outline: what the call produced
    rt_text,    \* the returned Outline written back in the delimiter format
    rt_parsed,  \* parse_outline: what the call on rt_text produced
    ledger,     \* Firestore users/<uid>: [exists, credits, version]
    ledger0,    \* the ledger document as it was before the first request
    rengine,    \* credit-gated request r: the counter its endpoint charges
    rpc,        \* credit-gated request r: where the handler stands
    rsnap,      \* credit-gated request r: the document its transaction read
    cu_pc,      \* create_user_endpoint: the statement it stands before
    cu_req,     \* create_user_endpoint: which request fields are present
    cu_resp,    \* create_user_endpoint: the status code of the response
    ep_pc,      \* credit-gated endpoint: the statement it stands before
    ep_req,     \* credit-gated endpoint: the route and which fields are present
    ep_text,    \* credit-gated endpoint: outline_text or campaign_package_text
    ep_resp,    \* credit-gated endpoint: the response (status, JSON body)
    pexels_api, \* course_agent: TRUE when PEXELS_API_KEY configured the client
    fan_pc,     \* generate_text_content_route: the statement it stands before
    fan_req,    \* generate_text_content_route: the request (uid, outline)
    tasks,      \* generate_text_content_route: the task tuples, in submit order
    worker,     \* process_lesson call of task i: its position and locals
    used_ids,   \* the manager.list() shared by the tasks of the run
    finished,   \* the task indices in the order their calls returned
    fan_resp,   \* generate_text_content_route: the response
    les_pc,     \* generate_lesson_content: "call" before the call, "returned" after
    les_answer, \* generate_lesson_content: what model.generate_content does
    les_content, \* generate_lesson_content: the value returned
    eb_pc,      \* build_ebook_html: "call" before the call, "returned" after
    eb_args,    \* build_ebook_html: its arguments
    eb_result,  \* build_ebook_html: the document returned, or that it raised
    th_pc,      \* get_css_for_style: "call" before the call, "returned" after
    th_color,   \* get_css_for_style: color_hex as its channels (r, g, b)
    th_dark,    \* is_color_dark(color_hex) as the call computed it
    th_css      \* get_css_for_style: the colours of the style sheet returned

parseVars == <<text, parse_pc, parsed, rt_text, rt_parsed>>
ledgerVars == <<ledger, ledger0, rengine, rpc, rsnap>>
createVars == <<cu_pc, cu_req, cu_resp>>
endpointVars == <<ep_pc, ep_req, ep_text, ep_resp>>
lessonVars == <<les_pc, les_answer, les_content>>
fanVars == <<pexels_api, fan_pc, fan_req, tasks, worker, used_ids, finished, fan_resp,
             lessonVars>>
ebookVars == <<eb_pc, eb_args, eb_result, th_pc, th_color, th_dark, th_css>>
vars == <<parseVars, ledgerVars, createVars, endpointVars, fanVars, ebookVars>>

\* what an operation of one component leaves alone
notParse == <<ledgerVars, createVars, endpointVars, fanVars, ebookVars>>
notLedger == <<parseVars, createVars, endpointVars, fanVars, ebookVars>>
notEndpoint == <<parseVars, createVars, fanVars, ebookVars>>
notFan == <<parseVars, ledgerVars, createVars, endpointVars, ebookVars, lessonVars>>
notEbook == <<parseVars, ledgerVars, createVars, endpointVars, fanVars>>

Null == "None"

\* ------------------------------------------------------------------------
\* Bounds
\* ------------------------------------------------------------------------
MaxTextLen == 5
NumRequests == 3
MaxOutlineLen == 3
MaxTasks == 2
NumPhotos == 2
MaxEbookModules == 2
MaxEbookLessons == 2
MaxContentItems == 1
MaxCredits == 2
MaxProseLen == 3

\* ------------------------------------------------------------------------
\* Components at rest: the values a part of the program has while a
\* specification exercises another part
\* ------------------------------------------------------------------------
\* course_agent.py:89
EmptyOutline == [course_title |-> <<>>, modules |-> <<>>]

ParseIdle ==
    /\ text = <<>>
    /\ parse_pc = "idle"
    /\ parsed = [data |-> EmptyOutline, raised |-> FALSE]
    /\ rt_text = <<>>
    /\ rt_parsed = [data |-> EmptyOutline, raised |-> FALSE]

\* a user document that was never written
NoDocument == [exists |-> FALSE, credits |-> [ebook |-> 0, script |-> 0], version |-> 0]

\* app.py:171 before a request arrives
CreateIdle ==
    /\ cu_pc = "idle"
    /\ cu_req = [uid |-> FALSE]
    /\ cu_resp = 0

LedgerIdle ==
    /\ CreateIdle
    /\ ledger = NoDocument
    /\ ledger0 = NoDocument
    /\ rengine = <<>>
    /\ rpc = <<>>
    /\ rsnap = <<>>

\* a JSON response: status code and, for a 200 of generate-outline, the Outline
NoResponse == [status |-> 0, body |-> EmptyOutline]
ErrorResponse(code) == [status |-> code, body |-> EmptyOutline]

EndpointIdle ==
    /\ ep_pc = "idle"
    /\ ep_req = [route |-> "generate-outline", body |-> FALSE, uid |-> FALSE,
                 topic |-> FALSE]
    /\ ep_text = <<>>
    /\ ep_resp = NoResponse

\* course_agent.py:116 before a call
LessonIdle ==
    /\ les_pc = "idle"
    /\ les_answer = [ok |-> FALSE, text |-> <<>>]
    /\ les_content = <<>>

\* app.py:283-308 before a request arrives
FanIdle ==
    /\ LessonIdle
    /\ pexels_api = FALSE
    /\ fan_pc = "idle"
    /\ fan_req = [uid |-> FALSE, has_outline |-> FALSE, outline |-> <<>>]
    /\ tasks = <<>>
    /\ worker = <<>>
    /\ used_ids = <<>>
    /\ finished = <<>>
    /\ fan_resp = [status |-> 0, ebook_content |-> <<>>]

\* the colours of a style sheet (app.py:386)
NoCss == [background |-> <<255, 255, 255>>, main_text_color |-> "", heading_color |-> ""]

\* app.py:384 before a call
ThemeIdle ==
    /\ th_pc = "idle"
    /\ th_color = <<255, 255, 255>>
    /\ th_dark = FALSE
    /\ th_css = NoCss

\* app.py:413 before a call
EbookIdle ==
    /\ ThemeIdle
    /\ eb_pc = "idle"
    /\ eb_args = [outline |-> <<>>, content_data |-> <<>>, cover_image_path |-> <<>>,
                  color_hex |-> <<255, 255, 255>>]
    /\ eb_result = [raised |-> FALSE, html |-> <<>>]

\* ------------------------------------------------------------------------
\* Tokens of the delimiter format (course_agent.py:77-84)
\* ------------------------------------------------------------------------
Tokens == {"CT", "MS", "ME", "LS", "LE", "MT", "LT", "LO", "SP", "w"}

RECURSIVE SeqsUpTo(_, _)
SeqsUpTo(S, n) ==
    IF n = 0 THEN {<<>>}
    ELSE LET shorter == SeqsUpTo(S, n - 1)
         IN  shorter \cup {Append(s, x) : s \in {q \in shorter : Len(q) = n - 1}, x \in S}

\* ------------------------------------------------------------------------
\* Python string primitives on token sequences
\* ------------------------------------------------------------------------
\* str.find: index of the first occurrence, 0 when absent
IndexOf(s, t) ==
    IF \E i \in 1..Len(s) : s[i] = t
    THEN CHOOSE i \in 1..Len(s) : s[i] = t /\ \A j \in 1..(i - 1) : s[j] # t
    ELSE 0

\* sep in s
Contains(s, t) == IndexOf(s, t) # 0

\* s.split(t, 1)
SplitFirst(s, t) ==
    LET i == IndexOf(s, t)
    IN  IF i = 0 THEN <<s>>
        ELSE <<SubSeq(s, 1, i - 1), SubSeq(s, i + 1, Len(s))>>

\* s.split(t)
RECURSIVE SplitAll(_, _)
SplitAll(s, t) ==
    LET i == IndexOf(s, t)
    IN  IF i = 0 THEN <<s>>
        ELSE <<SubSeq(s, 1, i - 1)>> \o SplitAll(SubSeq(s, i + 1, Len(s)), t)

\* s.replace(t, "")
Replace(s, t) == SelectSeq(s, LAMBDA x : x # t)

\* the tokens str.strip() removes: a run of whitespace, and the blank line
\* that separates two paragraphs of prose
Whitespace == {"SP", "PB"}

\* s.strip()
RECURSIVE LStrip(_)
LStrip(s) == IF s # <<>> /\ Head(s) \in Whitespace THEN LStrip(Tail(s)) ELSE s

RECURSIVE RStrip(_)
RStrip(s) ==
    IF s # <<>> /\ s[Len(s)] \in Whitespace THEN RStrip(SubSeq(s, 1, Len(s) - 1)) ELSE s

Strip(s) == RStrip(LStrip(s))

\* seq[1:]
Rest(s) == IF s = <<>> THEN <<>> ELSE Tail(s)

\* ------------------------------------------------------------------------
\* parse_outline (course_agent.py:88-114)
\* ------------------------------------------------------------------------
OBJECTIVE_DEFAULT == <<"Objective", "not", "specified.">>

\* lines 106-110: one lesson chunk becomes one lesson
ParseLesson(les_text) ==
    LET lesson_data    == SplitAll(les_text, "LE")[1]
        parts          == SplitAll(lesson_data, "LO")
        title_part     == parts[1]
        objective_part == Rest(parts)
    IN  [lesson_title       |-> Strip(Replace(title_part, "LT")),
         learning_objective |-> IF objective_part # <<>>
                                THEN Strip(objective_part[1])
                                ELSE OBJECTIVE_DEFAULT]

\* lines 105-110 as the spec describes them: a chunk without the objective
\* marker is skipped
LessonLoopDiscarding(lessons_text) ==
    LET kept == SelectSeq(lessons_text, LAMBDA c : Contains(SplitAll(c, "LE")[1], "LO"))
    IN  [i \in 1..Len(kept) |-> ParseLesson(kept[i])]

\* lines 105-110: the loop appends one lesson per chunk
LessonLoop(lessons_text) ==
    [i \in 1..Len(lessons_text) |-> ParseLesson(lessons_text[i])]

\* line 104 without the [1:]
LessonsTextNoSlice(lessons_part) ==
    SplitAll(<<"LS">> \o lessons_part, "LS")

\* line 104
LessonsText(lessons_part) ==
    Rest(SplitAll(<<"LS">> \o lessons_part, "LS"))

\* line 99 without the truncation at ---MODULE_END---
ModulePartsNoEnd(mod_text) == mod_text

\* line 99
ModuleParts(mod_text) == SplitAll(mod_text, "ME")[1]

\* lines 101-110: a module chunk that contains ---LESSON_START---
ParseModule(module_parts) ==
    LET split             == SplitFirst(module_parts, "LS")
        module_title_part == split[1]
        lessons_part      == split[2]
    IN  [module_title |-> Strip(Replace(module_title_part, "MT")),
         lessons      |-> LessonLoop(LessonsText(lessons_part))]

\* lines 98-111: the loop over the module chunks
RECURSIVE ModuleLoop(_)
ModuleLoop(modules_text) ==
    IF modules_text = <<>> THEN <<>>
    ELSE LET module_parts == ModuleParts(Head(modules_text))
         IN  IF ~Contains(module_parts, "LS")
             THEN ModuleLoop(Tail(modules_text))
             ELSE <<ParseModule(module_parts)>> \o ModuleLoop(Tail(modules_text))

\* lines 92-111: the body of the try block; exc is TRUE when a statement of
\* the block raised (title_and_rest[1] on line 96 is an IndexError when no
\* ---MODULE_START--- follows COURSE_TITLE:), data is the dict as it stood
ParseTry(txt) ==
    LET title_match == SplitFirst(txt, "CT")
    IN  IF Len(title_match) > 1
        THEN LET title_and_rest == SplitFirst(title_match[2], "MS")
                 course_title   == Strip(title_and_rest[1])
             IN  IF Len(title_and_rest) < 2
                 THEN [data |-> [course_title |-> course_title, modules |-> <<>>],
                       exc  |-> TRUE]
                 ELSE [data |-> [course_title |-> course_title,
                                 modules |-> ModuleLoop(Rest(SplitAll(
                                     <<"MS">> \o title_and_rest[2], "MS")))],
                       exc  |-> FALSE]
        ELSE [data |-> [course_title |-> <<>>,
                        modules |-> ModuleLoop(Rest(SplitAll(txt, "MS")))],
              exc  |-> FALSE]

\* the try block without its except clause: the exception leaves the function
ExceptNothing(r) == [data |-> r.data, raised |-> r.exc]

\* lines 112-114: except Exception logs and falls through to return data
ExceptHandler(r) == [data |-> r.data, raised |-> FALSE]

\* lines 88-114
parse_outline(txt) ==
    IF txt = <<>>
    THEN [data |-> [course_title |-> <<>>, modules |-> <<>>], raised |-> FALSE]
    ELSE ExceptHandler(ParseTry(txt))

\* ------------------------------------------------------------------------
\* Calls to the text service (course_agent.py:34-47, 86)
\* ------------------------------------------------------------------------
\* what model.generate_content can do: fail (or model is None), or answer
\* with a text, possibly empty
GeminiResponses(texts) ==
    {[ok |-> FALSE, text |-> <<>>]} \cup {[ok |-> TRUE, text |-> t] : t \in texts}

\* lines 34-40 without the except clause: the error leaves the function
safe_gemini_call_uncaught(response, fallback) ==
    IF ~response.ok THEN [raised |-> TRUE, value |-> <<>>]
    ELSE [raised |-> FALSE,
          value |-> IF response.text = <<>> THEN fallback ELSE response.text]

\* lines 34-43: _safe_gemini_call
safe_gemini_call(response, fallback) ==
    IF ~response.ok THEN [raised |-> FALSE, value |-> fallback]
    ELSE [raised |-> FALSE,
          value |-> IF response.text = <<>> THEN fallback ELSE response.text]

\* lines 45-47: _clean_response; "BOLD" is the token **, "FENCE_HTML" is
\* ```html and "FENCE" is ```
clean_response(txt) ==
    IF txt = <<>> THEN <<>>
    ELSE Strip(Replace(Replace(Replace(txt, "BOLD"), "FENCE_HTML"), "FENCE"))

\* line 86: the fallback outline of generate_outline
FALLBACK_OUTLINE ==
    <<"CT", "SP", "w", "SP", "MS", "SP", "MT", "SP", "w", "SP", "LS", "SP",
      "LT", "SP", "w", "SP", "LO", "SP", "w", "SP", "LE", "SP", "ME">>

\* lines 50-86
generate_outline(response) == safe_gemini_call(response, FALLBACK_OUTLINE)

\* Python truth value of a dict: false only when it has no keys
DictIsFalsy(d) == DOMAIN d = {}

\* ------------------------------------------------------------------------
\* Credit ledger (app.py:67-95)
\* ------------------------------------------------------------------------
Engines == {"ebook", "script"}

\* line 67
DEFAULT_EBOOK_CREDITS == 5
DEFAULT_SCRIPT_CREDITS == 10
DEFAULT_CREDITS == [ebook |-> DEFAULT_EBOOK_CREDITS, script |-> DEFAULT_SCRIPT_CREDITS]

\* lines 71-79 with line 79 taken on both branches: credits is {} when the
\* document is missing, so the value is 0
current_credit_val_from_empty(user_doc, engine_type) ==
    IF ~user_doc.exists THEN 0
    ELSE user_doc.credits[engine_type]

\* lines 71-79: the value the transaction compares, from the snapshot it read
current_credit_val(user_doc, engine_type) ==
    IF ~user_doc.exists THEN DEFAULT_CREDITS[engine_type]
    ELSE user_doc.credits[engine_type]

\* line 81 with >= in place of >
HasCreditOffByOne(val) == val >= 0

\* line 81
HasCredit(val) == val > 0

\* lines 75-76 and 82: the writes the transaction buffers, applied in order
\* at commit: set the default document when there was none, then
\* Increment(-1) on the engine's counter when the request is granted
TransactionWrites(user_doc, engine_type) ==
    LET after_set ==
            IF ~user_doc.exists
            THEN [exists |-> TRUE, credits |-> DEFAULT_CREDITS, version |-> user_doc.version]
            ELSE user_doc
        after_update ==
            IF HasCredit(current_credit_val(user_doc, engine_type))
            THEN [after_set EXCEPT !.credits[engine_type] = @ - 1]
            ELSE after_set
    IN  [after_update EXCEPT !.version =
            IF after_update.credits # user_doc.credits \/ after_update.exists # user_doc.exists
            THEN @ + 1 ELSE @]

\* lines 83-85: the transaction's return value
TransactionResult(user_doc, engine_type) ==
    HasCredit(current_credit_val(user_doc, engine_type))

\* line 69 without conflict detection: the writes go through even if the
\* document changed after the read
CommitUnchecked(snapshot, doc) == TRUE

\* line 69: firestore.transactional commits only if the document read by
\* the transaction has not been written since
CommitAllowed(snapshot, doc) == snapshot.version = doc.version

Requests == 1..NumRequests

\* the documents a user can have: none, or one holding both counters
LedgerStates ==
    {NoDocument} \cup
    {[exists |-> TRUE, credits |-> [ebook |-> e, script |-> s], version |-> 1] :
        e \in 0..MaxCredits, s \in 0..MaxCredits}

\* app.py:232-239 and 343-351: the requests have arrived; each is a
\* generate-outline ("ebook") or a generate-viral-content ("script") call
CreditInit ==
    /\ ledger \in LedgerStates
    /\ ledger0 = ledger
    /\ rengine \in [Requests -> Engines]
    /\ rpc = [r \in Requests |-> "recv"]
    /\ rsnap = [r \in Requests |-> NoDocument]
    /\ CreateIdle
    /\ ParseIdle
    /\ EndpointIdle
    /\ FanIdle
    /\ EbookIdle

\* lines 237-238 / 348-350 and 87-92: the uid is present, the handler calls
\* run_credit_transaction, which opens a transaction
BeginTransaction(r) ==
    /\ rpc[r] = "recv"
    /\ rpc' = [rpc EXCEPT ![r] = "tx_read"]
    /\ UNCHANGED <<ledger, ledger0, rengine, rsnap, notLedger>>

\* line 71: user_ref.get(transaction=transaction)
TransactionRead(r) ==
    /\ rpc[r] = "tx_read"
    /\ rsnap' = [rsnap EXCEPT ![r] = ledger]
    /\ rpc' = [rpc EXCEPT ![r] = "tx_commit"]
    /\ UNCHANGED <<ledger, ledger0, rengine, notLedger>>

\* lines 69, 75-85: the decorator commits the buffered writes if the
\* document is still the one that was read, and the handler answers
\* (granted: goes on; rejected: 403)
TransactionCommit(r) ==
    /\ rpc[r] = "tx_commit"
    /\ CommitAllowed(rsnap[r], ledger)
    /\ ledger' = TransactionWrites(rsnap[r], rengine[r])
    /\ rpc' = [rpc EXCEPT ![r] =
                 IF TransactionResult(rsnap[r], rengine[r]) THEN "granted" ELSE "rejected_403"]
    /\ UNCHANGED <<ledger0, rengine, rsnap, notLedger>>

\* line 69: the document changed since the read; the decorator rolls back
\* and runs the function again
TransactionRetry(r) ==
    /\ rpc[r] = "tx_commit"
    /\ ~CommitAllowed(rsnap[r], ledger)
    /\ rpc' = [rpc EXCEPT ![r] = "tx_read"]
    /\ UNCHANGED <<ledger, ledger0, rengine, rsnap, notLedger>>

CreditNext ==
    \/ \E r \in Requests : BeginTransaction(r)
    \/ \E r \in Requests : TransactionRead(r)
    \/ \E r \in Requests : TransactionCommit(r)
    \/ \E r \in Requests : TransactionRetry(r)

SpecCredit == CreditInit /\ [][CreditNext]_vars

\* the counter of an engine as a request would find it
Counter(doc, e) == current_credit_val(doc, e)

Granted(e) == {r \in Requests : rengine[r] = e /\ rpc[r] = "granted"}
Rejected(e) == {r \in Requests : rengine[r] = e /\ rpc[r] = "rejected_403"}
RequestsFor(e) == {r \in Requests : rengine[r] = e}
Minimum(a, b) == IF a <= b THEN a ELSE b

C15_FirstRequestGetsDefaults ==
    [][\A r \in Requests :
          (rpc[r] = "tx_commit" /\ rpc'[r] # "tx_commit" /\ ~ledger.exists) =>
             /\ rpc'[r] = "granted"
             /\ ledger'.exists
             /\ ledger'.credits =
                    IF rengine[r] = "ebook" THEN [ebook |-> 4, script |-> 10]
                    ELSE [ebook |-> 5, script |-> 9]]_vars

\* C15 witness: the user had no document, the first request was an ebook
\* request and the ledger now holds ebook 4, script 10
C15_Witness ==
    /\ rpc # <<>>
    /\ ~ledger0.exists
    /\ ledger.exists
    /\ ledger.credits = [ebook |-> 4, script |-> 10]
    /\ Cardinality(Granted("ebook")) = 1
    /\ \E r \in Requests : rpc[r] \in {"recv", "tx_read", "tx_commit"}

\* ------------------------------------------------------------------------
\* /api/create-user next to the credit-gated requests (app.py:171-181)
\* ------------------------------------------------------------------------
\* a create-user request has arrived along with the credit-gated requests
CreateInit ==
    /\ ledger \in LedgerStates
    /\ ledger0 = ledger
    /\ rengine \in [Requests -> Engines]
    /\ rpc = [r \in Requests |-> "recv"]
    /\ rsnap = [r \in Requests |-> NoDocument]
    /\ cu_pc = "recv"
    /\ cu_req \in [uid : BOOLEAN]
    /\ cu_resp = 0
    /\ ParseIdle
    /\ EndpointIdle
    /\ FanIdle
    /\ EbookIdle

\* lines 174-177: the uid check and user_ref.get().exists, a plain read
\* outside any transaction
CreateUserCheck ==
    /\ cu_pc = "recv"
    /\ IF ~cu_req.uid
       THEN cu_pc' = "done" /\ cu_resp' = 400
       ELSE IF ledger.exists
       THEN cu_pc' = "done" /\ cu_resp' = 201
       ELSE cu_pc' = "set" /\ UNCHANGED cu_resp
    /\ UNCHANGED <<cu_req, ledgerVars, parseVars, endpointVars, fanVars, ebookVars>>

\* lines 178-179: user_ref.set({'credits': DEFAULT_CREDITS}) replaces the
\* document as it is now
CreateUserSet ==
    /\ cu_pc = "set"
    /\ ledger' = [exists |-> TRUE, credits |-> DEFAULT_CREDITS, version |-> ledger.version + 1]
    /\ cu_pc' = "done"
    /\ cu_resp' = 201
    /\ UNCHANGED <<cu_req, ledger0, rengine, rpc, rsnap,
                   parseVars, endpointVars, fanVars, ebookVars>>

CreateNext ==
    \/ CreditNext
    \/ CreateUserCheck
    \/ CreateUserSet

SpecCreateUser == CreateInit /\ [][CreateNext]_vars

\* C17: a step of create-user never changes the credits of a ledger
\* document that exists when the step is taken.
C17_CreateUserKeepsCredits ==
    [][(ledger.exists /\ cu_pc' # cu_pc) => ledger'.credits = ledger.credits]_vars

\* ------------------------------------------------------------------------
\* generate_outline_endpoint (app.py:232-262), one request
\* ------------------------------------------------------------------------
\* the two credit-gated routes (app.py:232, 343) and the counter each charges
Routes == {"generate-outline", "generate-viral-content"}
EngineOf(route) == IF route = "generate-outline" THEN "ebook" ELSE "script"

\* a request has arrived: body says whether the body reads as a JSON object,
\* uid whether it has a uid, topic whether it has the fields checked on
\* line 243 (topic and audience) or 354 (topic)
EndpointInit ==
    /\ ep_pc = "recv"
    /\ ep_req \in [route : Routes, body : BOOLEAN, uid : BOOLEAN, topic : BOOLEAN]
    /\ ep_text = <<>>
    /\ ep_resp = NoResponse
    /\ ledger \in LedgerStates
    /\ ledger0 = ledger
    /\ rengine = <<>>
    /\ rpc = <<>>
    /\ rsnap = <<>>
    /\ CreateIdle
    /\ ParseIdle
    /\ FanIdle
    /\ EbookIdle

\* lines 235-237 and 346-348; request.get_json() or data.get raises when
\* the body is not a JSON object, and lines 261-262 / 379-381 answer 500
EpCheckUid ==
    /\ ep_pc = "recv"
    /\ IF ~ep_req.body
       THEN ep_pc' = "done" /\ ep_resp' = ErrorResponse(500)
       ELSE IF ~ep_req.uid
       THEN ep_pc' = "done" /\ ep_resp' = ErrorResponse(401)
       ELSE ep_pc' = "credit" /\ UNCHANGED ep_resp
    /\ UNCHANGED <<ep_req, ep_text, ledgerVars, notEndpoint>>

\* lines 238-239 and 350-351: run_credit_transaction(uid, engine); no other
\* request runs, so the transaction reads and commits in one step; when db
\* is None or Firestore raises, lines 88 and 93-95 return False
EpCredit ==
    /\ ep_pc = "credit"
    /\ \E firestore_ok \in BOOLEAN :
         IF ~firestore_ok
         THEN /\ ep_pc' = "done"
              /\ ep_resp' = ErrorResponse(403)
              /\ UNCHANGED ledger
         ELSE /\ ledger' = TransactionWrites(ledger, EngineOf(ep_req.route))
              /\ IF TransactionResult(ledger, EngineOf(ep_req.route))
                 THEN ep_pc' = "validate" /\ UNCHANGED ep_resp
                 ELSE ep_pc' = "done" /\ ep_resp' = ErrorResponse(403)
    /\ UNCHANGED <<ep_req, ep_text, ledger0, rengine, rpc, rsnap, notEndpoint>>

\* lines 241-243 and 353-354 with the credit given back on a 400
EpValidateRefunding ==
    /\ ep_pc = "validate"
    /\ IF ~ep_req.topic
       THEN /\ ep_pc' = "done"
            /\ ep_resp' = ErrorResponse(400)
            /\ ledger' = [ledger EXCEPT !.credits[EngineOf(ep_req.route)] = @ + 1]
       ELSE /\ ep_pc' = IF ep_req.route = "generate-outline" THEN "generate" ELSE "profile"
            /\ UNCHANGED <<ep_resp, ledger>>
    /\ UNCHANGED <<ep_req, ep_text, ledger0, rengine, rpc, rsnap, notEndpoint>>

\* lines 241-243 and 353-354
EpValidate ==
    /\ ep_pc = "validate"
    /\ IF ~ep_req.topic
       THEN ep_pc' = "done" /\ ep_resp' = ErrorResponse(400)
       ELSE /\ ep_pc' = IF ep_req.route = "generate-outline" THEN "generate" ELSE "profile"
            /\ UNCHANGED ep_resp
    /\ UNCHANGED <<ep_req, ep_text, ledgerVars, notEndpoint>>

\* lines 251-255 (and 261-262 when the call raises)
EpGenerate ==
    /\ ep_pc = "generate"
    /\ \E response \in GeminiResponses(SeqsUpTo(Tokens, MaxOutlineLen)) :
         LET outline_text == generate_outline(response)
         IN  IF outline_text.raised \/ outline_text.value = <<>>
             THEN /\ ep_pc' = "done"
                  /\ ep_resp' = ErrorResponse(500)
                  /\ UNCHANGED ep_text
             ELSE /\ ep_pc' = "parse"
                  /\ ep_text' = outline_text.value
                  /\ UNCHANGED ep_resp
    /\ UNCHANGED <<ep_req, ledgerVars, notEndpoint>>

\* lines 257-262
EpParse ==
    /\ ep_pc = "parse"
    /\ LET parsed_outline == parse_outline(ep_text)
       IN  ep_resp' = IF parsed_outline.raised \/ DictIsFalsy(parsed_outline.data)
                      THEN ErrorResponse(500)
                      ELSE [status |-> 200, body |-> parsed_outline.data]
    /\ ep_pc' = "done"
    /\ UNCHANGED <<ep_req, ep_text, ledgerVars, notEndpoint>>

\* the campaign text: "LB" is the first {, "OBJ" is text that completes a
\* JSON object after it, "w" is any other text, "FENCE" is ```
CampaignTokens == {"LB", "OBJ", "w", "FENCE"}

\* line 253: the fallback '{}'
CAMPAIGN_FALLBACK == <<"LB", "OBJ">>

\* lines 199-254
generate_viral_campaign(response) ==
    clean_response(safe_gemini_call(response, CAMPAIGN_FALLBACK).value)

\* lines 364-372: text from the first { on, when json.loads accepts it
CampaignIsJson(campaign_package_text) ==
    LET first_brace_index == IndexOf(campaign_package_text, "LB")
    IN  /\ first_brace_index # 0
        /\ SubSeq(campaign_package_text, first_brace_index, Len(campaign_package_text))
               = <<"LB", "OBJ">>

\* lines 356-358: the plain read of the user document for brand_dna; when
\* Firestore raises, lines 379-381 answer 500
ViralProfile ==
    /\ ep_pc = "profile"
    /\ \E firestore_ok \in BOOLEAN :
         IF firestore_ok
         THEN ep_pc' = "campaign" /\ UNCHANGED ep_resp
         ELSE ep_pc' = "done" /\ ep_resp' = ErrorResponse(500)
    /\ UNCHANGED <<ep_req, ep_text, ledgerVars, notEndpoint>>

\* lines 360-377
ViralCampaign ==
    /\ ep_pc = "campaign"
    /\ \E response \in GeminiResponses(SeqsUpTo(CampaignTokens, MaxOutlineLen)) :
         /\ ep_text' = generate_viral_campaign(response)
         /\ ep_resp' = IF CampaignIsJson(generate_viral_campaign(response))
                        THEN [status |-> 200, body |-> EmptyOutline]
                        ELSE ErrorResponse(500)
    /\ ep_pc' = "done"
    /\ UNCHANGED <<ep_req, ledgerVars, notEndpoint>>

EndpointNext ==
    \/ EpCheckUid
    \/ EpCredit
    \/ EpValidate
    \/ EpGenerate
    \/ EpParse
    \/ ViralProfile
    \/ ViralCampaign

SpecEndpoint == EndpointInit /\ [][EndpointNext]_vars

\* C4: when parse_outline yields zero modules for the generated outline
\* text, generate-outline answers 500; it never answers 200 with an Outline
\* whose module list is empty.
C4_ZeroModulesIs500 ==
    (ep_pc = "done" /\ ep_req.route = "generate-outline" /\ ep_text # <<>>) =>
        /\ (parse_outline(ep_text).data.modules = <<>>) => ep_resp.status = 500
        /\ ep_resp.status = 200 => ep_resp.body.modules # <<>>

\* the other counter of the user document
OtherEngine(e) == IF e = "ebook" THEN "script" ELSE "ebook"

\* the request's counter is one below what the request found, the other
\* counter is what the request found
ConsumedOne ==
    /\ Counter(ledger, EngineOf(ep_req.route))
          = Counter(ledger0, EngineOf(ep_req.route)) - 1
    /\ Counter(ledger, OtherEngine(EngineOf(ep_req.route)))
          = Counter(ledger0, OtherEngine(EngineOf(ep_req.route)))

\* the decrement sits between the uid check and the validation: nothing is
\* charged before the transaction, one credit is gone from validation on
ChargedAfterUidCheck ==
    /\ ep_pc \in {"recv", "credit"} => ledger = ledger0
    /\ ep_pc \in {"validate", "generate", "parse", "profile", "campaign"} => ConsumedOne

\* C18 as stated: a generate-outline request takes at most one credit from
\* the ebook counter, right after the uid check and before validation and
\* generation; only the responses 401 and 403 leave the ledger unchanged,
\* every other response (400, 500) comes with one credit consumed and not
\* refunded; the same for generate-viral-content on the script counter.
C18_OnlyAuthFailuresAreFree ==
    /\ ChargedAfterUidCheck
    /\ ep_pc = "done" =>
          IF ep_resp.status \in {401, 403} THEN ledger = ledger0 ELSE ConsumedOne

\* C18 amended: as above, except that the ledger is also unchanged by the
\* 500 answered when the request body cannot be read as a JSON object,
\* which is raised before the uid check.
C18_ChargeBeforeValidation ==
    /\ ChargedAfterUidCheck
    /\ ep_pc = "done" =>
          IF ep_resp.status \in {401, 403} \/ ~ep_req.body
          THEN ledger = ledger0
          ELSE ConsumedOne

\* a request without a topic was answered 400 and the credit is gone
C18_Witness ==
    /\ ep_pc = "done"
    /\ ep_resp.status = 400
    /\ ConsumedOne
    /\ ledger # ledger0

\* ------------------------------------------------------------------------
\* Lesson content and image selection (course_agent.py:45-47, 116-156)
\* ------------------------------------------------------------------------
\* line 134: the fallback of generate_lesson_content
LESSON_FALLBACK == <<"<p>Error generating lesson.</p>">>

\* lines 116-135
generate_lesson_content(response) ==
    LET r == safe_gemini_call(response, LESSON_FALLBACK)
    IN  [raised |-> r.raised, value |-> clean_response(r.value)]

\* the texts the service answers a lesson prompt with
LessonTexts == {<<>>, <<"w">>, <<"FENCE_HTML", "BOLD", "w", "SP">>}

\* line 144 written as range(6)
MAX_IMAGE_ATTEMPTS_SIX == 5 + 1

\* line 144: range(5)
MAX_IMAGE_ATTEMPTS == 5

PhotoIds == 1..NumPhotos

\* id None
NoneId == 0

\* lines 139 and 156: the placeholder images (title-labelled when there is
\* no client, "No Image" otherwise); both carry id None
PlaceholderImage(kind) ==
    [url |-> [host |-> "placehold.co", label |-> kind, photo |-> NoneId], id |-> NoneId]

\* line 152
PexelsImage(photo) ==
    [url |-> [host |-> "pexels", label |-> "large2x", photo |-> photo], id |-> photo]

\* lines 146-148: what pexels_api.search + get_entries can give: an error,
\* no photo, or a photo
SearchOutcomes == {"error", "empty", "photo"}

\* line 149: photos[0] exists only when the search gave a photo
PhotosOf(outcome) == IF outcome = "photo" THEN PhotoIds ELSE {NoneId}

\* ------------------------------------------------------------------------
\* Specification of the lesson text alone: any answer, one call
\* ------------------------------------------------------------------------
\* the answer of the text service: "PB" is a paragraph break, "w" and "v"
\* are two different runs of prose, the rest are the markers line 47 strips
ProseTokens == {"w", "v", "PB", "SP", "BOLD", "FENCE_HTML", "FENCE"}

LessonInit ==
    /\ les_pc = "call"
    /\ les_answer \in GeminiResponses(SeqsUpTo(ProseTokens, MaxProseLen))
    /\ les_content = <<>>
    /\ pexels_api = FALSE
    /\ fan_pc = "idle"
    /\ fan_req = [uid |-> FALSE, has_outline |-> FALSE, outline |-> <<>>]
    /\ tasks = <<>>
    /\ worker = <<>>
    /\ used_ids = <<>>
    /\ finished = <<>>
    /\ fan_resp = [status |-> 0, ebook_content |-> <<>>]
    /\ ParseIdle
    /\ LedgerIdle
    /\ EndpointIdle
    /\ EbookIdle

\* lines 116-135
LessonCall ==
    /\ les_pc = "call"
    /\ les_content' = generate_lesson_content(les_answer).value
    /\ les_pc' = "returned"
    /\ UNCHANGED <<les_answer, pexels_api, fan_pc, fan_req, tasks, worker, used_ids,
                   finished, fan_resp, parseVars, ledgerVars,
                   createVars, endpointVars, ebookVars>>

LessonNext == LessonCall

SpecLesson == LessonInit /\ [][LessonNext]_vars

\* ------------------------------------------------------------------------
\* process_lesson and generate_text_content_route (app.py:264-308)
\* ------------------------------------------------------------------------
\* line 278: f"Lesson {mod_idx}.{les_idx}: {lesson['lesson_title']}"
LessonLabel(mod_idx, les_idx, lesson_title) ==
    [prefix |-> "Lesson", mod_idx |-> mod_idx, les_idx |-> les_idx, title |-> lesson_title]

\* line 277: f"Module {mod_idx}: {module['module_title']}"
ModuleLabel(mod_idx, module_title) ==
    [prefix |-> "Module", mod_idx |-> mod_idx, title |-> module_title]

\* tuple comparison of Python on pairs
TupleLess(a, b) == a[1] < b[1] \/ (a[1] = b[1] /\ a[2] < b[2])

\* line 305 with reverse=True
OrderBeforeReversed(x, y) == TupleLess(y.original_order, x.original_order)

\* line 305: key=lambda x: x['original_order']
OrderBefore(x, y) == TupleLess(x.original_order, y.original_order)

\* list.sort is stable: x goes behind every element that is not after it
RECURSIVE InsertSorted(_, _)
InsertSorted(sorted, x) ==
    IF sorted = <<>> THEN <<x>>
    ELSE IF OrderBefore(x, Head(sorted)) THEN <<x>> \o sorted
    ELSE <<Head(sorted)>> \o InsertSorted(Tail(sorted), x)

\* line 305: full_content_data.sort(...)
RECURSIVE SortContent(_)
SortContent(items) ==
    IF items = <<>> THEN <<>>
    ELSE InsertSorted(SortContent(SubSeq(items, 1, Len(items) - 1)), items[Len(items)])

\* lines 298-300: one task per lesson, modules and lessons numbered from 1
RECURSIVE BuildTasks(_, _)
BuildTasks(modules, mod_idx) ==
    IF mod_idx > Len(modules) THEN <<>>
    ELSE [les_idx \in 1..Len(modules[mod_idx].lessons) |->
             [module  |-> modules[mod_idx],
              lesson  |-> modules[mod_idx].lessons[les_idx],
              mod_idx |-> mod_idx,
              les_idx |-> les_idx]]
         \o BuildTasks(modules, mod_idx + 1)

\* lines 274-281: the dict process_lesson returns
LessonResult(task, w) ==
    [module_title   |-> ModuleLabel(task.mod_idx, task.module.module_title),
     lesson_title   |-> LessonLabel(task.mod_idx, task.les_idx, task.lesson.lesson_title),
     content        |-> <<w.image.url, w.content>>,
     original_order |-> <<task.mod_idx, task.les_idx>>]

\* the locals of a process_lesson call that has not started
NewWorker ==
    [pc |-> "generate", content |-> <<>>, text_failed |-> FALSE,
     attempt |-> 0, photo |-> NoneId, search_failed |-> FALSE,
     image |-> PlaceholderImage("none")]

\* outlines with at least one lesson per module and n lessons in all
RECURSIVE Shapes(_)
Shapes(n) ==
    IF n = 0 THEN {<<>>}
    ELSE Shapes(n - 1) \cup
         {<<k>> \o sh : k \in 1..n, sh \in Shapes(n - 1)}

ShapeSum(sh) ==
    LET RECURSIVE Sum(_)
        Sum(i) == IF i = 0 THEN 0 ELSE sh[i] + Sum(i - 1)
    IN  Sum(Len(sh))

OutlineOfShape(sh) ==
    [m \in 1..Len(sh) |->
        [module_title |-> "m",
         lessons |-> [l \in 1..sh[m] |->
                         [lesson_title |-> "a", learning_objective |-> "o"]]]]

FanOutlines == {OutlineOfShape(sh) : sh \in {q \in Shapes(MaxTasks) : ShapeSum(q) <= MaxTasks}}

\* a request to /api/generate-text-content has arrived
FanInit ==
    /\ pexels_api \in BOOLEAN
    /\ fan_pc = "recv"
    /\ fan_req \in [uid : BOOLEAN, has_outline : BOOLEAN, outline : FanOutlines]
    /\ fan_req.has_outline \/ fan_req.outline = <<>>
    /\ tasks = <<>>
    /\ worker = <<>>
    /\ used_ids = <<>>
    /\ finished = <<>>
    /\ fan_resp = [status |-> 0, ebook_content |-> <<>>]
    /\ LessonIdle
    /\ ParseIdle
    /\ LedgerIdle
    /\ EndpointIdle
    /\ EbookIdle

\* lines 286-303: the checks, the task list, used_ids = manager.list(), and
\* the submission of every task to the thread pool
FanDispatch ==
    /\ fan_pc = "recv"
    /\ IF ~fan_req.uid
       THEN /\ fan_pc' = "done"
            /\ fan_resp' = [status |-> 401, ebook_content |-> <<>>]
            /\ UNCHANGED <<tasks, worker>>
       ELSE IF ~fan_req.has_outline
       THEN /\ fan_pc' = "done"
            /\ fan_resp' = [status |-> 400, ebook_content |-> <<>>]
            /\ UNCHANGED <<tasks, worker>>
       ELSE /\ fan_pc' = "running"
            /\ tasks' = BuildTasks(fan_req.outline, 1)
            /\ worker' = [i \in 1..Len(BuildTasks(fan_req.outline, 1)) |-> NewWorker]
            /\ UNCHANGED fan_resp
    /\ UNCHANGED <<pexels_api, fan_req, used_ids, finished, notFan>>

\* process_lesson returned (or raised) in the thread of task i: the frame
\* of find_unique_image (attempt, photo) is gone, the results remain
Return(i, w) ==
    /\ worker' = [worker EXCEPT ![i] = [w EXCEPT !.attempt = 0, !.photo = NoneId]]
    /\ finished' = Append(finished, i)

\* lines 267-270 and 138-142: the lesson text, then the entry of
\* find_unique_image (placeholder at once when there is no Pexels client)
WorkerGenerate(i) ==
    /\ fan_pc = "running"
    /\ worker[i].pc = "generate"
    /\ \E response \in GeminiResponses(LessonTexts) :
         LET r == generate_lesson_content(response)
             w == [worker[i] EXCEPT !.content = r.value,
                                    !.text_failed = ~response.ok \/ response.text = <<>>]
         IN  IF r.raised
             THEN Return(i, [w EXCEPT !.pc = "raised"])
             ELSE IF ~pexels_api
             THEN Return(i, [w EXCEPT !.pc = "done", !.image = PlaceholderImage("title")])
             ELSE /\ worker' = [worker EXCEPT ![i] = [w EXCEPT !.pc = "search"]]
                  /\ UNCHANGED finished
    /\ UNCHANGED <<pexels_api, fan_pc, fan_req, tasks, used_ids, fan_resp, notFan>>

\* lines 144-150 and 153-156: one pass of the loop: the search of page
\* attempt + 1 and, when it gave a photo, the test photo.id not in used_ids
WorkerSearch(i) ==
    /\ fan_pc = "running"
    /\ worker[i].pc = "search"
    /\ worker[i].attempt < MAX_IMAGE_ATTEMPTS
    /\ \E outcome \in SearchOutcomes :
       \E photo \in PhotosOf(outcome) :
         LET w == worker[i]
             next_pass ==
                 IF w.attempt + 1 < MAX_IMAGE_ATTEMPTS
                 THEN /\ worker' = [worker EXCEPT ![i] = [w EXCEPT !.attempt = @ + 1]]
                      /\ UNCHANGED finished
                 ELSE Return(i, [w EXCEPT !.pc = "done", !.attempt = @ + 1,
                                           !.image = PlaceholderImage("No+Image")])
         IN  CASE outcome = "error" ->
                    Return(i, [w EXCEPT !.pc = "done", !.search_failed = TRUE,
                                        !.attempt = @ + 1,
                                        !.image = PlaceholderImage("No+Image")])
               [] outcome = "empty" -> next_pass
               [] outcome = "photo" ->
                    IF \A k \in 1..Len(used_ids) : used_ids[k] # photo
                    THEN /\ worker' = [worker EXCEPT ![i] =
                                          [w EXCEPT !.pc = "append", !.photo = photo,
                                                    !.attempt = @ + 1]]
                         /\ UNCHANGED finished
                    ELSE next_pass
    /\ UNCHANGED <<pexels_api, fan_pc, fan_req, tasks, used_ids, fan_resp, notFan>>

\* lines 151-152: used_ids.append(photo.id) and the return of the image
WorkerAppend(i) ==
    /\ fan_pc = "running"
    /\ worker[i].pc = "append"
    /\ used_ids' = Append(used_ids, worker[i].photo)
    /\ Return(i, [worker[i] EXCEPT !.pc = "done", !.image = PexelsImage(worker[i].photo)])
    /\ UNCHANGED <<pexels_api, fan_pc, fan_req, tasks, fan_resp, notFan>>

\* lines 303-308: list(executor.map(...)) yields the results in task order
\* once every call is over and re-raises the exception of a call that
\* raised; the sort; the response
FanCollect ==
    /\ fan_pc = "running"
    /\ \A i \in 1..Len(tasks) : worker[i].pc \in {"done", "raised"}
    /\ fan_resp' =
         IF \E i \in 1..Len(tasks) : worker[i].pc = "raised"
         THEN [status |-> 500, ebook_content |-> <<>>]
         ELSE [status |-> 200,
               ebook_content |->
                   SortContent([i \in 1..Len(tasks) |-> LessonResult(tasks[i], worker[i])])]
    /\ fan_pc' = "done"
    /\ UNCHANGED <<pexels_api, fan_req, tasks, worker, used_ids, finished, notFan>>

FanNext ==
    \/ FanDispatch
    \/ \E i \in 1..Len(tasks) : WorkerGenerate(i)
    \/ \E i \in 1..Len(tasks) : WorkerSearch(i)
    \/ \E i \in 1..Len(tasks) : WorkerAppend(i)
    \/ FanCollect

SpecFanOut == FanInit /\ [][FanNext]_vars

\* ------------------------------------------------------------------------
\* build_ebook_html (app.py:102-105, 384-462)
\* ------------------------------------------------------------------------
\* Floating-point arithmetic of line 105.  A double is held as the natural
\* number value * 2^56, written in five digits of base 2^16, lowest first;
\* every value that line 105 computes is below 256 and a multiple of 2^-56.
LimbBase == 65536

\* the doubles nearest to 0.299, 0.587 and 0.114
\* (0x1.322d0e5604189p-2, 0x1.2c8b439581062p-1, 0x1.d2f1a9fbe76c9p-4)
D299 == <<1572, 38273, 35651, 76, 0>>
D587 == <<33552, 51904, 17825, 150, 0>>
D114 == <<30409, 40894, 12058, 29, 0>>

RECURSIVE Pow2(_)
Pow2(k) == IF k = 0 THEN 1 ELSE 2 * Pow2(k - 1)

\* carry propagation: every digit back below the base
RECURSIVE Carry(_, _)
Carry(digits, c) ==
    IF digits = <<>> THEN <<>>
    ELSE LET v == Head(digits) + c
         IN  <<v % LimbBase>> \o Carry(Tail(digits), v \div LimbBase)

\* the exact product with an integer channel and the exact sum
BigScale(x, k) == Carry([i \in 1..Len(x) |-> x[i] * k], 0)
BigAdd(x, y) == Carry([i \in 1..Len(x) |-> x[i] + y[i]], 0)

\* number of binary digits of a natural below the base
RECURSIVE DigitBits(_)
DigitBits(v) == IF v = 0 THEN 0 ELSE 1 + DigitBits(v \div 2)

BitLen(x) ==
    IF \A i \in 1..Len(x) : x[i] = 0 THEN 0
    ELSE LET top == CHOOSE i \in 1..Len(x) :
                       x[i] # 0 /\ \A j \in (i + 1)..Len(x) : x[j] = 0
         IN  16 * (top - 1) + DigitBits(x[top])

\* IEEE 754 round-to-nearest-even to the 53 significant bits of a double
RoundDouble(x) ==
    LET len == BitLen(x)
    IN  IF len <= 53 THEN x
        ELSE LET unit == Pow2(len - 53)
                 low  == x[1] % unit
                 odd  == (x[1] \div unit) % 2 = 1
                 up   == low * 2 > unit \/ (low * 2 = unit /\ odd)
             IN  Carry([x EXCEPT ![1] = x[1] - low + IF up THEN unit ELSE 0], 0)

\* the float operators * and + of line 105
FloatMul(d, k) == RoundDouble(BigScale(d, k))
FloatAdd(x, y) == RoundDouble(BigAdd(x, y))

\* line 104: a channel is two hexadecimal digits
MaxChannel == 255

\* line 105: the products 0.299 * r, 0.587 * g and 0.114 * b for every
\* value of a channel
Mul299 == [r \in 0..MaxChannel |-> FloatMul(D299, r)]
Mul587 == [g \in 0..MaxChannel |-> FloatMul(D587, g)]
Mul114 == [b \in 0..MaxChannel |-> FloatMul(D114, b)]

\* line 105: 0.299 * r + 0.587 * g + 0.114 * b, evaluated left to right
Luminance(r, g, b) == FloatAdd(FloatAdd(Mul299[r], Mul587[g]), Mul114[b])

\* x < 128, that is x * 2^56 < 2^63
Below128(x) == x[5] = 0 /\ x[4] < 32768

\* lines 102-105: a colour #RRGGBB is the triple of its channels
is_color_dark(hex_color) ==
    Below128(Luminance(hex_color[1], hex_color[2], hex_color[3]))

\* lines 384-386: the colours get_css_for_style puts in the style sheet
get_css_for_style(color_hex) ==
    IF is_color_dark(color_hex)
    THEN [background |-> color_hex, main_text_color |-> "#EAEAEA", heading_color |-> "#FFFFFF"]
    ELSE [background |-> color_hex, main_text_color |-> "#333333", heading_color |-> "#111111"]

\* lines 178 and 191: the fallbacks of the summary and the action guide
SUMMARY_FALLBACK == <<"<p>Error generating summary.</p>">>
GUIDE_FALLBACK == <<"<p>Error generating guide.</p>">>

\* lines 158-179
generate_executive_summary(response) ==
    LET r == safe_gemini_call(response, SUMMARY_FALLBACK)
    IN  [raised |-> r.raised, value |-> clean_response(r.value)]

\* lines 181-192
generate_action_guide(response) ==
    LET r == safe_gemini_call(response, GUIDE_FALLBACK)
    IN  [raised |-> r.raised, value |-> clean_response(r.value)]

\* line 452: the default of content_map.get
CONTENT_NOT_FOUND == <<"<p>Error: Content not found.</p>">>

\* what indexing a dict with a missing key gives
KEY_ERROR == <<"KeyError">>

\* line 442: the dict comprehension; a later item replaces an earlier one
\* with the same lesson_title
ContentMap(content_data) ==
    [label \in {content_data[k].lesson_title : k \in 1..Len(content_data)} |->
        LET last == CHOOSE k \in 1..Len(content_data) :
                       /\ content_data[k].lesson_title = label
                       /\ \A j \in (k + 1)..Len(content_data) :
                            content_data[j].lesson_title # label
        IN  content_data[last].content]

\* line 452 written as content_map[lesson_title_full]
ContentLookupStrict(content_map, label) ==
    IF label \in DOMAIN content_map THEN content_map[label] ELSE KEY_ERROR

\* line 452: content_map.get(lesson_title_full, "<p>Error: Content not found.</p>")
ContentLookup(content_map, label) ==
    IF label \in DOMAIN content_map THEN content_map[label] ELSE CONTENT_NOT_FOUND

\* lines 422-427: the title page
TitlePage(cover_image_path) ==
    IF cover_image_path # <<>>
    THEN <<"title-page", "img",
           IF Head(cover_image_path) # "/" THEN <<"/">> \o cover_image_path
           ELSE cover_image_path>>
    ELSE <<"title-page", "h1", <<>>>>

\* lines 429-439: the table of contents, one entry per module with its
\* lesson entries nested
TableOfContents(modules) ==
    <<"toc-page",
      [m \in 1..Len(modules) |->
          <<ModuleLabel(m, modules[m].module_title),
            [l \in 1..Len(modules[m].lessons) |->
                LessonLabel(m, l, modules[m].lessons[l].lesson_title)]>>]>>

\* line 450 written as f"Lesson {les_idx}: {lesson['lesson_title']}"
LessonTitleFullNoModule(mod_idx, les_idx, lesson_title) ==
    [prefix |-> "Lesson", mod_idx |-> 0, les_idx |-> les_idx, title |-> lesson_title]

\* line 450: f"Lesson {mod_idx}.{les_idx}: {lesson['lesson_title']}"
LessonTitleFull(mod_idx, les_idx, lesson_title) ==
    [prefix |-> "Lesson", mod_idx |-> mod_idx, les_idx |-> les_idx, title |-> lesson_title]

\* lines 449-454: the lesson blocks of module mod_idx
LessonBlocks(module, mod_idx, content_map) ==
    [l \in 1..Len(module.lessons) |->
        LET lesson_title_full == LessonTitleFull(mod_idx, l, module.lessons[l].lesson_title)
        IN  <<"lesson", lesson_title_full, ContentLookup(content_map, lesson_title_full)>>]

\* lines 443-460: heading, lesson blocks and action guide of every module
RECURSIVE ModuleBlocks(_, _, _, _)
ModuleBlocks(modules, mod_idx, content_map, guides) ==
    IF mod_idx > Len(modules) THEN <<>>
    ELSE <<<<"module-title", ModuleLabel(mod_idx, modules[mod_idx].module_title)>>>>
         \o LessonBlocks(modules[mod_idx], mod_idx, content_map)
         \o <<<<"action-guide-page", modules[mod_idx].module_title,
                generate_action_guide(guides[mod_idx]).value>>>>
         \o ModuleBlocks(modules, mod_idx + 1, content_map, guides)

\* lines 413-462; summary and guides are the answers of the text service
build_ebook_html(outline, content_data, color_hex, cover_image_path, summary, guides) ==
    LET content_map == ContentMap(content_data)
        body == <<TitlePage(cover_image_path),
                  TableOfContents(outline),
                  <<"executive-summary-page", generate_executive_summary(summary).value>>>>
                \o ModuleBlocks(outline, 1, content_map, guides)
        html == <<<<"style", get_css_for_style(color_hex)>>>> \o body
    IN  IF \/ generate_executive_summary(summary).raised
           \/ \E m \in 1..Len(outline) : generate_action_guide(guides[m]).raised
           \/ \E k \in 1..Len(html) : html[k][1] = "lesson" /\ html[k][3] = KEY_ERROR
        THEN [raised |-> TRUE, html |-> <<>>]
        ELSE [raised |-> FALSE, html |-> html]

\* ------------------------------------------------------------------------
\* Specification of the theme alone: any sampled colour, one call
\* ------------------------------------------------------------------------
\* the colours: every red, with greens and blues that include black, white,
\* #1a202c and colours whose luminance is 128
GreenSamples == {0, 32, 128, 200, 255}
BlueSamples == {0, 44, 72, 255}
ThemeColors ==
    {<<r, g, b>> : r \in 0..MaxChannel, g \in GreenSamples, b \in BlueSamples}

ThemeInit ==
    /\ th_pc = "call"
    /\ th_color \in ThemeColors
    /\ th_dark = FALSE
    /\ th_css = NoCss
    /\ eb_pc = "idle"
    /\ eb_args = [outline |-> <<>>, content_data |-> <<>>, cover_image_path |-> <<>>,
                  color_hex |-> <<255, 255, 255>>]
    /\ eb_result = [raised |-> FALSE, html |-> <<>>]
    /\ ParseIdle
    /\ LedgerIdle
    /\ EndpointIdle
    /\ FanIdle

\* lines 384-386
ThemeCall ==
    /\ th_pc = "call"
    /\ th_dark' = is_color_dark(th_color)
    /\ th_css' = get_css_for_style(th_color)
    /\ th_pc' = "returned"
    /\ UNCHANGED <<th_color, eb_pc, eb_args, eb_result, notEbook>>

ThemeNext == ThemeCall

SpecTheme == ThemeInit /\ [][ThemeNext]_vars

\* the lesson titles a content item can carry: "a" is the title the outline
\* gives every lesson, "b" is a title the outline does not have
LessonTitles == {"a", "b"}

\* the outlines of the assembler: every module has a title and lessons
EbookModules ==
    {[module_title |-> "m",
      lessons |-> [l \in 1..n |-> [lesson_title |-> "a", learning_objective |-> "o"]]] :
        n \in 1..MaxEbookLessons}

EbookOutlines == {o \in SeqsUpTo(EbookModules, MaxEbookModules) : o # <<>>}

\* the display labels a content item can carry
EbookLabels ==
    {LessonLabel(m, l, t) : m \in 1..MaxEbookModules, l \in 1..MaxEbookLessons,
                            t \in LessonTitles}

\* editedContent: item k carries the content "c" k
ContentCollections ==
    {[k \in 1..Len(labels) |-> [lesson_title |-> labels[k], content |-> <<"c", k>>]] :
        labels \in SeqsUpTo(EbookLabels, MaxContentItems)}

\* the themes: #000000 without a cover image, #FFFFFF with a cover path
\* that lacks the leading slash
EbookThemes ==
    {[color_hex |-> <<0, 0, 0>>, cover_image_path |-> <<>>],
     [color_hex |-> <<255, 255, 255>>, cover_image_path |-> <<"covers", "x.png">>]}

EbookInit ==
    /\ eb_pc = "call"
    /\ \E outline \in EbookOutlines, content_data \in ContentCollections,
          theme \in EbookThemes :
         eb_args = [outline |-> outline, content_data |-> content_data,
                    cover_image_path |-> theme.cover_image_path,
                    color_hex |-> theme.color_hex]
    /\ eb_result = [raised |-> FALSE, html |-> <<>>]
    /\ ThemeIdle
    /\ ParseIdle
    /\ LedgerIdle
    /\ EndpointIdle
    /\ FanIdle

EbookBuild ==
    /\ eb_pc = "call"
    /\ \E summary \in GeminiResponses({<<"w">>}),
          guides \in [1..Len(eb_args.outline) -> GeminiResponses({<<"w">>})] :
         eb_result' = build_ebook_html(eb_args.outline, eb_args.content_data,
                                       eb_args.color_hex, eb_args.cover_image_path,
                                       summary, guides)
    /\ eb_pc' = "returned"
    /\ UNCHANGED <<eb_args, th_pc, th_color, th_dark, th_css, notEbook>>

EbookNext == EbookBuild

SpecEbook == EbookInit /\ [][EbookNext]_vars

\* ------------------------------------------------------------------------
\* The fan-out followed by the assembler: /api/generate-text-content, then
\* /api/generate-full-ebook with the same outline and the content returned
\* (app.py:283-336)
\* ------------------------------------------------------------------------
\* lines 317-327: outline and editedContent are present (otherwise 400),
\* color and coverImagePath are absent, so the defaults of lines 323-324
AssembleFanOut ==
    /\ fan_pc = "done"
    /\ fan_resp.status = 200
    /\ fan_req.outline # <<>>
    /\ fan_resp.ebook_content # <<>>
    /\ eb_pc = "idle"
    /\ eb_args' = [outline |-> fan_req.outline, content_data |-> fan_resp.ebook_content,
                   cover_image_path |-> <<>>, color_hex |-> <<255, 255, 255>>]
    /\ \E summary \in GeminiResponses({<<"w">>}),
          guides \in [1..Len(fan_req.outline) -> GeminiResponses({<<"w">>})] :
         eb_result' = build_ebook_html(fan_req.outline, fan_resp.ebook_content,
                                       <<255, 255, 255>>, <<>>, summary, guides)
    /\ eb_pc' = "returned"
    /\ UNCHANGED <<th_pc, th_color, th_dark, th_css, notEbook>>

PipelineNext == FanNext \/ AssembleFanOut

SpecPipeline == FanInit /\ [][PipelineNext]_vars

\* ------------------------------------------------------------------------
\* Specification of the parser alone: any text, one call
\* ------------------------------------------------------------------------
ParseInit ==
    /\ \E n \in 0..MaxTextLen : text \in [1..n -> Tokens]
    /\ parse_pc = "call"
    /\ parsed = [data |-> EmptyOutline, raised |-> FALSE]
    /\ rt_text = <<>>
    /\ rt_parsed = [data |-> EmptyOutline, raised |-> FALSE]
    /\ LedgerIdle
    /\ EndpointIdle
    /\ FanIdle
    /\ EbookIdle

ParseCall ==
    /\ parse_pc = "call"
    /\ parsed' = parse_outline(text)
    /\ parse_pc' = "returned"
    /\ UNCHANGED <<text, rt_text, rt_parsed, notParse>>

ParseNext == ParseCall

SpecParse == ParseInit /\ [][ParseNext]_vars

\* ------------------------------------------------------------------------
\* The delimiter structure of the input, read off marker positions
\* ------------------------------------------------------------------------
MinOf(S) == CHOOSE x \in S : \A y \in S : x <= y

\* the k-th smallest element of a set of positions
Nth(S, k) == CHOOSE x \in S : Cardinality({y \in S : y <= x}) = k

MarkerPos(tok) == {i \in 1..Len(text) : text[i] = tok}

\* position of the first COURSE_TITLE:, 0 when there is none
CTPos == IF MarkerPos("CT") = {} THEN 0 ELSE MinOf(MarkerPos("CT"))

\* the ---MODULE_START--- markers that open a module chunk
ModuleStarts == {p \in MarkerPos("MS") : p > CTPos}

\* one past the last token of the module chunk opened at p
ModuleEnd(p) ==
    MinOf({j \in (p + 1)..Len(text) : text[j] \in {"MS", "ME"}} \cup {Len(text) + 1})

\* the ---LESSON_START--- markers inside the module chunk opened at p
LessonStarts(p) == {l \in (p + 1)..(ModuleEnd(p) - 1) : text[l] = "LS"}

\* the module chunks with a ---LESSON_START--- before their ---MODULE_END---
KeptModules == {p \in ModuleStarts : LessonStarts(p) # {}}

\* one past the last token of the lesson chunk opened at l in module p
LessonEnd(p, l) ==
    MinOf({j \in (l + 1)..(ModuleEnd(p) - 1) : text[j] \in {"LS", "LE"}}
          \cup {ModuleEnd(p)})

HasObjective(p, l) == \E j \in (l + 1)..(LessonEnd(p, l) - 1) : text[j] = "LO"

\* the tokens of text at positions from..to that are not tok, trimmed
FieldAt(from, to, tok) ==
    Strip(SelectSeq(SubSeq(text, from, to), LAMBDA x : x # tok))

ModuleTitleAt(p) == FieldAt(p + 1, MinOf(LessonStarts(p)) - 1, "MT")

LessonTitleAt(p, l) ==
    FieldAt(l + 1,
            MinOf({j \in (l + 1)..(LessonEnd(p, l) - 1) : text[j] = "LO"}
                  \cup {LessonEnd(p, l)}) - 1,
            "LT")

Returned == parse_pc = "returned"
Modules == parsed.data.modules

\* C6: for every input text parse_outline returns an Outline value (a
\* course title and a sequence of modules) and no exception leaves the call,
\* also when COURSE_TITLE: is not followed by any ---MODULE_START---.
C6_NeverRaises ==
    Returned =>
        /\ parsed.raised = FALSE
        /\ DOMAIN parsed.data = {"course_title", "modules"}
        /\ parsed.data.course_title \in Seq(Tokens)
        /\ DOMAIN Modules = 1..Len(Modules)

\* C6 witness: COURSE_TITLE: with no ---MODULE_START--- after it was parsed
C6_Witness ==
    /\ Returned
    /\ CTPos > 0
    /\ ModuleStarts = {}
    /\ MarkerPos("MS") # {}
    /\ Modules = <<>>

C9_ModulesNonEmptyInOrder ==
    Returned =>
        /\ \A k \in 1..Len(Modules) : Len(Modules[k].lessons) >= 1
        /\ Len(Modules) = Cardinality(KeptModules)
        /\ \A k \in 1..Len(Modules) :
             Modules[k].module_title = ModuleTitleAt(Nth(KeptModules, k))

\* C9 witness: a lesson-less module chunk was dropped between two kept ones
C9_Witness ==
    /\ Returned
    /\ \E p, q, r \in ModuleStarts :
         /\ p < q /\ q < r
         /\ p \in KeptModules /\ q \notin KeptModules /\ r \in KeptModules
    /\ Len(Modules) = 2

\* C10: parse_outline fabricates nothing: there are at most as many modules
\* as ---MODULE_START--- tokens, the k-th module comes from the k-th kept
\* module marker and has at most as many lessons as that chunk has
\* ---LESSON_START--- tokens, and its j-th lesson carries the title found
\* at the chunk's j-th ---LESSON_START---.
C10_NoFabrication ==
    Returned =>
        /\ Len(Modules) <= Cardinality(KeptModules)
        /\ Cardinality(KeptModules) <= Cardinality(MarkerPos("MS"))
        /\ \A k \in 1..Len(Modules) :
             LET p == Nth(KeptModules, k)
             IN  /\ Len(Modules[k].lessons) <= Cardinality(LessonStarts(p))
                 /\ LessonStarts(p) \subseteq MarkerPos("LS")
                 /\ \A j \in 1..Len(Modules[k].lessons) :
                      Modules[k].lessons[j].lesson_title
                          = LessonTitleAt(p, Nth(LessonStarts(p), j))

\* C10 witness: fewer modules were returned than the text has
\* ---MODULE_START--- tokens, and a returned module has two lessons
C10_Witness ==
    /\ Returned
    /\ Len(Modules) >= 1
    /\ Cardinality(MarkerPos("MS")) > Len(Modules)
    /\ \E k \in 1..Len(Modules) : Len(Modules[k].lessons) = 2

\* ------------------------------------------------------------------------
\* Round trip: an Outline written back in the delimiter format and parsed
\* again (course_agent.py:77-114)
\* ------------------------------------------------------------------------
\* "LESSON_" and "TITLE:" are the two halves of the literal LESSON_TITLE:;
\* a text in which they stand next to each other contains the literal
RoundTokens == Tokens \cup {"LESSON_", "TITLE:"}

\* the tokens of a string: adjacent halves read as the literal they spell
RECURSIVE Lex(_)
Lex(s) ==
    IF Len(s) < 2 THEN s
    ELSE IF s[1] = "LESSON_" /\ s[2] = "TITLE:"
         THEN <<"LT">> \o Lex(SubSeq(s, 3, Len(s)))
         ELSE <<s[1]>> \o Lex(Tail(s))

\* lines 80-83: one lesson in the delimiter format
SerializeLesson(lesson) ==
    <<"LS", "SP", "LT", "SP">> \o lesson.lesson_title
    \o <<"SP", "LO", "SP">> \o lesson.learning_objective \o <<"SP", "LE", "SP">>

RECURSIVE SerializeLessons(_)
SerializeLessons(lessons) ==
    IF lessons = <<>> THEN <<>>
    ELSE SerializeLesson(Head(lessons)) \o SerializeLessons(Tail(lessons))

\* lines 78-84: one module in the delimiter format
SerializeModule(module) ==
    <<"MS", "SP", "MT", "SP">> \o module.module_title \o <<"SP">>
    \o SerializeLessons(module.lessons) \o <<"ME", "SP">>

RECURSIVE SerializeModules(_)
SerializeModules(modules) ==
    IF modules = <<>> THEN <<>>
    ELSE SerializeModule(Head(modules)) \o SerializeModules(Tail(modules))

\* lines 77-84: an Outline in the delimiter format, as the string reads
Serialize(outline) ==
    Lex(<<"CT", "SP">> \o outline.course_title \o <<"SP">>
        \o SerializeModules(outline.modules))

\* the texts of the round trip: every string over the tokens and the halves
RoundInit ==
    /\ \E n \in 0..MaxTextLen : text \in [1..n -> RoundTokens]
    /\ Lex(text) = text
    /\ parse_pc = "call"
    /\ parsed = [data |-> EmptyOutline, raised |-> FALSE]
    /\ rt_text = <<>>
    /\ rt_parsed = [data |-> EmptyOutline, raised |-> FALSE]
    /\ LedgerIdle
    /\ EndpointIdle
    /\ FanIdle
    /\ EbookIdle

\* the returned Outline, when it has a module, is written back and parsed
ParseAgain ==
    /\ parse_pc = "returned"
    /\ parsed.data.modules # <<>>
    /\ rt_text' = Serialize(parsed.data)
    /\ rt_parsed' = parse_outline(Serialize(parsed.data))
    /\ parse_pc' = "reparsed"
    /\ UNCHANGED <<text, parsed, notParse>>

RoundNext == ParseCall \/ ParseAgain

SpecRoundTrip == RoundInit /\ [][RoundNext]_vars

\* two Outlines are equal when their fields spell the same strings
SameLessons(a, b) ==
    /\ Len(a) = Len(b)
    /\ \A j \in 1..Len(a) :
         /\ Lex(a[j].lesson_title) = Lex(b[j].lesson_title)
         /\ Lex(a[j].learning_objective) = Lex(b[j].learning_objective)

SameOutline(a, b) ==
    /\ Lex(a.course_title) = Lex(b.course_title)
    /\ Len(a.modules) = Len(b.modules)
    /\ \A k \in 1..Len(a.modules) :
         /\ Lex(a.modules[k].module_title) = Lex(b.modules[k].module_title)
         /\ SameLessons(a.modules[k].lessons, b.modules[k].lessons)

\* C11: an Outline that parse_outline returned with at least one module
\* (each with at least one lesson), written back in the delimiter format
\* and parsed again, gives an equal Outline.
C11_RoundTrip ==
    parse_pc = "reparsed" =>
        /\ ~rt_parsed.raised
        /\ SameOutline(parsed.data, rt_parsed.data)

\* ------------------------------------------------------------------------
\* Properties of the lesson fan-out
\* ------------------------------------------------------------------------
Workers == 1..Len(worker)

\* the (module_index, lesson_index) pairs of the requested outline
OutlinePairs ==
    {<<m, l>> : m \in 1..Len(fan_req.outline), l \in 1..MaxTasks} \cap
    {<<m, l>> \in (1..MaxTasks) \X (1..MaxTasks) :
        m <= Len(fan_req.outline) /\ l <= Len(fan_req.outline[m].lessons)}

Answered200 == fan_pc = "done" /\ fan_req.uid /\ fan_req.has_outline

\* C1: within one run, no two lessons are assigned the same non-null image
\* id, whatever the interleaving of the process_lesson workers.
C1_UniqueImageIds ==
    \A i, j \in Workers :
        (i # j /\ worker[i].pc = "done" /\ worker[j].pc = "done"
              /\ worker[i].image.id # NoneId)
            => worker[i].image.id # worker[j].image.id

\* C3: the ebook_content of a 200 response has its original_order keys
\* strictly increasing, module index first and lesson index second,
\* whatever the order in which the tasks completed.
C3_OrderRestored ==
    (fan_pc = "done" /\ fan_resp.status = 200) =>
        \A a, b \in 1..Len(fan_resp.ebook_content) :
            a < b =>
              LET x == fan_resp.ebook_content[a].original_order
                  y == fan_resp.ebook_content[b].original_order
              IN  x[1] < y[1] \/ (x[1] = y[1] /\ x[2] < y[2])

\* C3 witness: a 200 response with several lessons whose tasks completed in
\* another order than they were submitted
C3_Witness ==
    /\ fan_pc = "done"
    /\ fan_resp.status = 200
    /\ Len(fan_resp.ebook_content) >= 2
    /\ \E a, b \in 1..Len(finished) : a < b /\ finished[a] > finished[b]

\* C5: whichever text or image calls fail, an authenticated request with an
\* outline is answered 200 with exactly one entry per (module_index,
\* lesson_index) pair of the outline and no other entry; a lesson whose text
\* call failed carries the placeholder text, one whose image search failed
\* carries the placeholder image.
C5_FailuresKeepEveryLesson ==
    Answered200 =>
        /\ fan_resp.status = 200
        /\ Len(fan_resp.ebook_content) = Cardinality(OutlinePairs)
        /\ \A pair \in OutlinePairs :
             Cardinality({k \in 1..Len(fan_resp.ebook_content) :
                            fan_resp.ebook_content[k].original_order = pair}) = 1
        /\ \A i \in Workers :
             \E k \in 1..Len(fan_resp.ebook_content) :
                LET item == fan_resp.ebook_content[k]
                IN  /\ item.original_order = <<tasks[i].mod_idx, tasks[i].les_idx>>
                    /\ worker[i].text_failed => item.content[2] = LESSON_FALLBACK
                    /\ worker[i].search_failed =>
                         item.content[1] = PlaceholderImage("No+Image").url

\* C5 witness: a response for two lessons where the text call of one lesson
\* and the image search of a lesson failed while another text call succeeded
C5_Witness ==
    /\ Answered200
    /\ Len(tasks) >= 2
    /\ \E i, j \in Workers : worker[i].text_failed /\ ~worker[j].text_failed
    /\ \E i \in Workers : worker[i].search_failed
    /\ Len(fan_resp.ebook_content) = Len(tasks)

\* the call of find_unique_image in task i returns in this step
ImageReturns(i) == worker[i].pc \in {"search", "append"} /\ worker'[i].pc = "done"

\* what one step of the run does to the find_unique_image call of task i
ImageStep(i) ==
    /\ worker[i].pc = "search" => worker[i].attempt < 5
    /\ worker[i].pc = "append" => worker[i].attempt <= 5
    /\ (worker[i].pc = "search" /\ worker'[i].pc = "append") =>
          /\ worker'[i].photo # NoneId
          /\ \A k \in 1..Len(used_ids) : used_ids[k] # worker'[i].photo
    /\ ImageReturns(i) =>
          IF worker'[i].image.id # NoneId
          THEN /\ worker[i].pc = "append"
               /\ worker'[i].image.id = worker[i].photo
               /\ used_ids' = Append(used_ids, worker'[i].image.id)
          ELSE /\ worker'[i].image.url.host = "placehold.co"
               /\ used_ids' = used_ids

\* C13: every call of find_unique_image makes at most 5 searches and
\* returns either an id that was absent from used_ids when it was tested
\* and that this call appended, or a placeholder with id None; used_ids
\* changes only in the step in which a call returns a non-null id, so a
\* call that returns the placeholder has added nothing, and None is never
\* added.
C13_ImageOutcomes ==
    [][/\ \A i \in Workers : ImageStep(i)
       /\ used_ids' # used_ids =>
             \E i \in Workers : ImageReturns(i) /\ worker'[i].image.id # NoneId]_vars

\* C13 witness: one call returned an id it appended, another one ran out
\* of pages without a search error and returned the placeholder
C13_Witness ==
    /\ fan_pc = "running"
    /\ Len(used_ids) = 1
    /\ \E i, j \in Workers :
         /\ worker[i].pc = "done" /\ worker[i].image.id = used_ids[1]
         /\ worker[j].pc = "done" /\ worker[j].image = PlaceholderImage("No+Image")
         /\ ~worker[j].search_failed

\* ------------------------------------------------------------------------
\* Properties of the lesson text
\* ------------------------------------------------------------------------
\* the paragraphs of a text: the non-empty pieces between paragraph
\* breaks, each trimmed
Paragraphs(txt) ==
    LET parts == SplitAll(txt, "PB")
        trimmed == [k \in 1..Len(parts) |-> Strip(parts[k])]
    IN  SelectSeq(trimmed, LAMBDA par : par # <<>>)

\* C14: the lesson content has no two paragraphs that are equal after
\* trimming.
C14_NoRepeatedParagraph ==
    les_pc = "returned" =>
        \A j, k \in 1..Len(Paragraphs(les_content)) :
            Paragraphs(les_content)[j] = Paragraphs(les_content)[k] => j = k

\* ------------------------------------------------------------------------
\* Properties of the assembler
\* ------------------------------------------------------------------------
EbReturned == eb_pc = "returned"

\* the (module_index, lesson_index) pairs of the outline argument
EbookPairs ==
    {pair \in (1..Len(eb_args.outline)) \X (1..(MaxEbookLessons + 1)) :
        pair[2] <= Len(eb_args.outline[pair[1]].lessons)}

\* the display label the outline gives the lesson at a pair
ExpectedLabel(pair) ==
    [prefix |-> "Lesson", mod_idx |-> pair[1], les_idx |-> pair[2],
     title |-> eb_args.outline[pair[1]].lessons[pair[2]].lesson_title]

ProvidedLabels ==
    {eb_args.content_data[k].lesson_title : k \in 1..Len(eb_args.content_data)}

\* the positions of the lesson blocks in the returned document
LessonBlockAt == {k \in 1..Len(eb_result.html) : eb_result.html[k][1] = "lesson"}

\* C7: for every outline and content collection build_ebook_html does not
\* raise and returns a complete document (style, title page, table of
\* contents, summary, and per module a heading and an action guide) with
\* exactly one lesson block per lesson of the outline; the block of a
\* lesson whose display label the collection omits holds the "content not
\* found" placeholder, the block of any other lesson holds the content of
\* an item that carries its label.
C7_MissingContentPlaceholder ==
    EbReturned =>
        /\ ~eb_result.raised
        /\ Len(eb_result.html) >= 4
        /\ eb_result.html[1][1] = "style"
        /\ eb_result.html[2][1] = "title-page"
        /\ eb_result.html[3][1] = "toc-page"
        /\ eb_result.html[4][1] = "executive-summary-page"
        /\ Cardinality({k \in 1..Len(eb_result.html) :
                          eb_result.html[k][1] = "module-title"}) = Len(eb_args.outline)
        /\ Cardinality({k \in 1..Len(eb_result.html) :
                          eb_result.html[k][1] = "action-guide-page"}) = Len(eb_args.outline)
        /\ Cardinality(LessonBlockAt) = Cardinality(EbookPairs)
        /\ \A pair \in EbookPairs :
             \E k \in LessonBlockAt :
                /\ eb_result.html[k][2] = ExpectedLabel(pair)
                /\ IF ExpectedLabel(pair) \notin ProvidedLabels
                   THEN eb_result.html[k][3] = CONTENT_NOT_FOUND
                   ELSE \E j \in 1..Len(eb_args.content_data) :
                           /\ eb_args.content_data[j].lesson_title = ExpectedLabel(pair)
                           /\ eb_args.content_data[j].content = eb_result.html[k][3]

\* C7 witness: a document was returned for a collection that has the label
\* of one lesson of the outline and omits the label of another
C7_Witness ==
    /\ EbReturned
    /\ ~eb_result.raised
    /\ \E p, q \in EbookPairs :
         /\ ExpectedLabel(p) \in ProvidedLabels
         /\ ExpectedLabel(q) \notin ProvidedLabels
    /\ \E k \in LessonBlockAt : eb_result.html[k][3] = CONTENT_NOT_FOUND

\* ------------------------------------------------------------------------
\* Properties of the theme
\* ------------------------------------------------------------------------
\* C12: is_color_dark is true exactly when 299 r + 587 g + 114 b < 128000,
\* and get_css_for_style picks the heading colour #FFFFFF exactly when
\* is_color_dark is true and #111111 otherwise.
C12_DarkIffLuminanceBelow128 ==
    th_pc = "returned" =>
        /\ th_dark <=> (299 * th_color[1] + 587 * th_color[2] + 114 * th_color[3]
                            < 128000)
        /\ th_css.heading_color = "#FFFFFF" <=> th_dark
        /\ th_css.heading_color = "#111111" <=> ~th_dark

\* ------------------------------------------------------------------------
\* Properties of the fan-out followed by the assembler
\* ------------------------------------------------------------------------
\* the lesson blocks of the document that carry the label of task i
BlocksOfTask(i) ==
    {k \in LessonBlockAt :
        eb_result.html[k][2] =
            [prefix |-> "Lesson", mod_idx |-> tasks[i].mod_idx,
             les_idx |-> tasks[i].les_idx, title |-> tasks[i].lesson.lesson_title]}

\* C16: the assembler, given the outline and the unmodified result of the
\* fan-out, returns a document with one lesson block per lesson, none of
\* them the "content not found" placeholder, and the block of the lesson
\* at (module_index, lesson_index) holds the content process_lesson
\* generated for that lesson.
C16_FanOutLabelsMatchAssembler ==
    (eb_pc = "returned" /\ fan_pc = "done") =>
        /\ ~eb_result.raised
        /\ Cardinality(LessonBlockAt) = Len(tasks)
        /\ \A k \in LessonBlockAt : eb_result.html[k][3] # CONTENT_NOT_FOUND
        /\ \A i \in 1..Len(tasks) :
              /\ Cardinality(BlocksOfTask(i)) = 1
              /\ \A k \in BlocksOfTask(i) :
                    eb_result.html[k][3] = <<worker[i].image.url, worker[i].content>>

\* C16 witness: a document was assembled from a run of two lessons whose
\* generated contents differ
C16_Witness ==
    /\ eb_pc = "returned"
    /\ fan_pc = "done"
    /\ Len(tasks) >= 2
    /\ \E i, j \in 1..Len(tasks) :
         <<worker[i].image.url, worker[i].content>>
             # <<worker[j].image.url, worker[j].content>>
    /\ Cardinality(LessonBlockAt) = Len(tasks)

====
